---- MODULE Spec2Model ----
(***************************************************************************)
(* Model of package itunes (src/itunes.go): ToRSSClient resolves an iTunes *)
(* page URL to the RSS feed behind it, following plist redirects.          *)
(*                                                                         *)
(* Strings are modelled as sequences of lexical tokens (TLA+ strings), so  *)
(* that concatenation, quoting, unescaping and parsing are computed and    *)
(* not assumed.  An error value is a record [id, msg]: id is the identity  *)
(* Go compares with ==, msg the token sequence Error() returns.            *)
(***************************************************************************)
EXTENDS Integers, Sequences, FiniteSets, TLC

\* ------------------------------------------------------------------ bounds

\* The recursion of processURL is cut off at this many frames (never reached
\* by the code as written: maxRedirects stops it first).
MaxDepth == 6

\* Longest document of the line-scanner specification.
MaxLines == 4

\* Longest token stream of the token-scanner specification.
MaxTokens == 3

\* ---------------------------------------------------------------- constants

maxRedirects == 3

StatusOK == 200

\* ------------------------------------------------------------------- errors

Nil == [id |-> "nil", msg |-> <<>>]

EOF == [id |-> "io.EOF", msg |-> <<"EOF">>]

ErrNoFeed == [id |-> "ErrNoFeed", msg |-> <<"no feed found">>]

\* errors.New / fmt.Errorf: a fresh error value carrying the message.
Errorf(msg) == [id |-> "new", msg |-> msg]

\* %q of a string.
Quote(s) == <<"\"">> \o s \o <<"\"">>

\* --------------------------------------------------------------------- URLs

U0 == <<"http://h/p0">>
U1 == <<"http://h/p1">>
U2 == <<"http://h/p2">>
U3 == <<"http://h/p3?urlDesc=", "&", "id=3">>
\* U3 as it is written inside a plist.
U3Escaped == <<"http://h/p3?urlDesc=", "&amp;", "id=3">>

\* Malformed URLs: no scheme before the colon, and a bad percent escape.
BadScheme == <<"://", "h/p">>
BadEscape == <<"http://h/p#bad", "%%2", "0escaping">>

GoodURLs == {U0, U1, U2, U3}
BadURLs == {BadScheme, BadEscape}
URLs == GoodURLs \cup BadURLs

Feed1 == <<"http://feeds/f1">>
Feed2 == <<"http://feeds/f2?a=", "&", "b">>

\* net/url's parse of the target, as http.NewRequest runs it: the innermost
\* cause of the *url.Error, or <<>> when the URL parses.
UrlParseCause(u) ==
    IF u # <<>> /\ u[1] = "://" THEN <<"missing protocol scheme">>
    ELSE IF \E i \in DOMAIN u : u[i] = "%%2"
         THEN <<"invalid URL escape ">> \o Quote(<<"%%2">>)
         ELSE <<>>

\* newRequest: the request, or the url.Error unwrapped to its inner Err.
newRequest(u) ==
    IF UrlParseCause(u) # <<>>
    THEN [req |-> <<>>, err |-> Errorf(UrlParseCause(u))]
    ELSE [req |-> <<"GET", "User-Agent: iTunes/10.1">> \o u, err |-> Nil]

\* ------------------------------------------------------------ Content-Type

Lower(t) ==
    CASE t = "Text" -> "text"
      [] t = "HTML" -> "html"
      [] OTHER -> t

ToLower(s) == [i \in DOMAIN s |-> Lower(s[i])]

IsSpace(t) == t = " "

IsToken(t) == t \notin {"/", ";", "=", " "}

RECURSIVE TrimLeft(_)
TrimLeft(s) == IF s # <<>> /\ IsSpace(Head(s)) THEN TrimLeft(Tail(s)) ELSE s

RECURSIVE TrimRight(_)
TrimRight(s) ==
    IF s # <<>> /\ IsSpace(s[Len(s)]) THEN TrimRight(SubSeq(s, 1, Len(s) - 1)) ELSE s

TrimSpace(s) == TrimLeft(TrimRight(s))

\* Index of the first ";" of s, or Len(s) + 1.
RECURSIVE CutAt(_, _)
CutAt(s, i) == IF i > Len(s) \/ s[i] = ";" THEN i ELSE CutAt(s, i + 1)

\* mime.checkMediaTypeDisposition: <<>> or the cause.
CheckMediaType(m) ==
    IF m = <<>> \/ ~IsToken(m[1]) THEN <<"mime: no media type">>
    ELSE IF Len(m) = 1 THEN <<>>
    ELSE IF m[2] # "/" THEN <<"mime: expected slash after first token">>
    ELSE IF Len(m) = 2 \/ ~IsToken(m[3]) THEN <<"mime: expected token after slash">>
    ELSE IF Len(m) > 3 THEN <<"mime: unexpected content after media subtype">>
    ELSE <<>>

\* The parameter list after the media type: every parameter is
\* ";" [space] token "=" token; a trailing ";" is ignored.
RECURSIVE ParamsOK(_)
ParamsOK(v) ==
    LET w == TrimLeft(v) IN
    IF w = <<>> THEN TRUE
    ELSE IF TrimSpace(w) = <<";">> THEN TRUE
    ELSE IF w[1] # ";" THEN FALSE
    ELSE LET p == TrimLeft(Tail(w)) IN
         /\ Len(p) >= 3
         /\ IsToken(p[1])
         /\ p[2] = "="
         /\ IsToken(p[3])
         /\ ParamsOK(SubSeq(p, 4, Len(p)))

\* mime.ParseMediaType: the lower-cased media type without its parameters.
ParseMediaType(v) ==
    LET cut == CutAt(v, 1)
        media == TrimSpace(ToLower(SubSeq(v, 1, cut - 1)))
        rest == SubSeq(v, cut, Len(v))
    IN IF CheckMediaType(media) # <<>>
       THEN [media |-> <<>>, err |-> Errorf(CheckMediaType(media))]
       ELSE IF ~ParamsOK(rest)
            THEN [media |-> media, err |-> Errorf(<<"mime: invalid media parameter">>)]
            ELSE [media |-> media, err |-> Nil]

TextHTML == <<"text", "/", "html">>
TextXML == <<"text", "/", "xml">>
ApplicationXML == <<"application", "/", "xml">>

\* The raw Content-Type headers a server may send.
ContentTypes ==
    { <<>>,
      <<"text", "/">>,
      <<"text", "/", "xml", ";", " ", "=">>,
      <<"image", "/", "png">>,
      <<"text", "/", "plain", ";", " ", "charset", "=", "utf-8">>,
      TextHTML,
      <<"Text", "/", "HTML", ";", " ", "charset", "=", "utf-8">>,
      TextXML,
      ApplicationXML }

\* ---------------------------------------------------------- HTML extractor

\* A token of html.Tokenizer: its type, its (lower-cased) tag name and its
\* attributes in document order.
Attr(k, v) == [key |-> k, val |-> v]

Tok(ty, tag, attrs) == [type |-> ty, tag |-> tag, attrs |-> attrs]

\* The inner loop of processHTML (lines 117-122): the value of the first
\* attribute from position j on that is named feed-url and is not empty.
RECURSIVE feedAttr(_, _)
feedAttr(attrs, j) ==
    IF j > Len(attrs) THEN <<>>
    ELSE IF attrs[j].key = "feed-url" /\ Len(attrs[j].val) > 0 THEN attrs[j].val
    ELSE feedAttr(attrs, j + 1)

\* The token loop as it would be without the test of the token type: any
\* button tag, start tag or not, is searched.
RECURSIVE scanTokensAnyType(_, _, _)
scanTokensAnyType(tokens, i, zerr) ==
    IF i > Len(tokens) THEN [feed |-> <<>>, err |-> zerr, read |-> i]
    ELSE IF tokens[i].tag # "button" THEN scanTokensAnyType(tokens, i + 1, zerr)
    ELSE IF feedAttr(tokens[i].attrs, 1) # <<>>
         THEN [feed |-> feedAttr(tokens[i].attrs, 1), err |-> Nil, read |-> i]
         ELSE scanTokensAnyType(tokens, i + 1, zerr)

\* The token loop of processHTML (lines 101-125) from token i on.  zerr is
\* what z.Err() reports once the tokenizer has no more tokens.
\* read counts the calls of z.Next(): the tokens read, and one more for the
\* ErrorToken that ends the input.
RECURSIVE scanTokens(_, _, _)
scanTokens(tokens, i, zerr) ==
    IF i > Len(tokens) THEN [feed |-> <<>>, err |-> zerr, read |-> i]
    ELSE IF tokens[i].type # "StartTag" THEN scanTokens(tokens, i + 1, zerr)
    ELSE IF tokens[i].tag # "button" THEN scanTokens(tokens, i + 1, zerr)
    ELSE IF feedAttr(tokens[i].attrs, 1) # <<>>
         THEN [feed |-> feedAttr(tokens[i].attrs, 1), err |-> Nil, read |-> i]
         ELSE scanTokens(tokens, i + 1, zerr)

\* processHTML as it would be if it returned "", nil at the end of the input.
processHTMLNilAtEnd(body) == scanTokens(body.tokens, 1, Nil)

\* processHTML on a response body: the tokenizer ends with io.EOF at the end
\* of the input, or with the reader's error.
processHTML(body) ==
    scanTokens(body.tokens, 1, IF body.readErr = Nil THEN EOF ELSE body.readErr)

\* ------------------------------------------------- structured-redirect extractor

prevLine == <<"<key>kind</key><string>Goto</string>">>

UrlOpen == "<key>url</key><string>"
UrlClose == "</string>"

UrlLine(u) == <<UrlOpen>> \o u \o <<UrlClose>>

\* reGoto.FindSubmatch: ^<key>url</key><string>(\S+)</string>$ .  The
\* submatches (whole match and capture), or <<>> when the line does not match.
reGoto(line) ==
    IF /\ Len(line) >= 3
       /\ line[1] = UrlOpen
       /\ line[Len(line)] = UrlClose
       /\ \A i \in 2..(Len(line) - 1) : ~IsSpace(line[i])
    THEN <<line, SubSeq(line, 2, Len(line) - 1)>>
    ELSE <<>>

Unescape1(t) ==
    CASE t = "&amp;" -> "&"
      [] t = "&lt;" -> "<"
      [] OTHER -> t

\* html.UnescapeString
UnescapeString(s) == [i \in DOMAIN s |-> Unescape1(s[i])]

\* The scanner loop of processXML (lines 137-156) with the scanner standing
\* before line i.  serr is scanner.Err() at the end of the input.
RECURSIVE scanLines(_, _, _)
scanLines(lines, i, serr) ==
    LET notFound == [next |-> <<>>, err |-> IF serr = Nil THEN EOF ELSE serr] IN
    IF i > Len(lines) THEN notFound
    ELSE IF lines[i] # prevLine THEN scanLines(lines, i + 1, serr)
    ELSE IF i + 1 > Len(lines) THEN notFound
    ELSE IF Len(reGoto(lines[i + 1])) # 2 THEN scanLines(lines, i + 2, serr)
    ELSE [next |-> UnescapeString(reGoto(lines[i + 1])[2]), err |-> Nil]

\* processXML on a response body.
processXML(body) == scanLines(body.lines, 1, body.readErr)

\* ------------------------------------------------------ documents and responses

\* A response body, as the two readers see it: the lines bufio.Scanner
\* delivers, the tokens html.Tokenizer delivers, and the error the reader
\* reports after them (Nil: the input simply ends).
Body(lines, tokens, readErr) == [lines |-> lines, tokens |-> tokens, readErr |-> readErr]

PlistTokens ==
    << Tok("StartTag", "plist", <<>>), Tok("StartTag", "dict", <<>>),
       Tok("Text", "", <<>>), Tok("EndTag", "dict", <<>>) >>

PageLines == << <<"<html>">>, <<"<button>">>, <<"</html>">> >>

\* An iTunes page with the feed button (after decoys that must be skipped).
PageFeed ==
    Body(PageLines,
         << Tok("StartTag", "html", <<>>),
            Tok("StartTag", "a", <<Attr("feed-url", Feed2)>>),
            Tok("SelfClosingTag", "button", <<Attr("feed-url", Feed2)>>),
            Tok("StartTag", "button",
                <<Attr("class", <<"x">>), Attr("feed-url", <<>>), Attr("feed-url", Feed1)>>),
            Tok("EndTag", "button", <<>>),
            Tok("StartTag", "button", <<Attr("feed-url", Feed2)>>) >>,
         Nil)

\* An iTunes page without it.
PageNoFeed ==
    Body(PageLines,
         << Tok("StartTag", "html", <<>>),
            Tok("StartTag", "a", <<Attr("feed-url", Feed2)>>),
            Tok("StartTag", "button", <<Attr("class", <<"x">>), Attr("feed-url", <<>>)>>),
            Tok("EndTag", "button", <<>>) >>,
         Nil)

\* A plist redirecting to the URL written as u.
Plist(u) ==
    Body(<< <<"<dict>">>, prevLine, UrlLine(u), <<"</dict>">> >>, PlistTokens, Nil)

\* A plist whose first marker is not followed by the url line.
PlistRetry(u) ==
    Body(<< prevLine, <<"<key>x</key>">>, prevLine, UrlLine(u) >>, PlistTokens, Nil)

PlistIncomplete == Body(<< <<"<dict>">>, prevLine >>, PlistTokens, Nil)

PlistBlankURL == Body(<< prevLine, <<UrlOpen, UrlClose>>, <<"</dict>">> >>, PlistTokens, Nil)

PlistMarkerTwice == Body(<< prevLine, prevLine, UrlLine(U1) >>, PlistTokens, Nil)

\* A body whose reader fails.
BrokenBody ==
    Body(<< <<"<dict>">> >>, <<Tok("StartTag", "html", <<>>)>>,
         Errorf(<<"unexpected EOF">>))

Bodies ==
    { PageFeed, PageNoFeed,
      Plist(U0), Plist(U1), PlistRetry(U2), Plist(U3Escaped),
      Plist(BadScheme), Plist(BadEscape),
      PlistIncomplete, PlistBlankURL, PlistMarkerTwice, BrokenBody }

\* What Client.Do hands back: an error, or a response with its status code,
\* status line, Content-Type header and body.
Response(doErr, code, status, ctype, body) ==
    [doErr |-> doErr, code |-> code, status |-> status, ctype |-> ctype, body |-> body]

NoResp == Response(Nil, 0, <<>>, <<>>, Body(<<>>, <<>>, Nil))

DoErrors ==
    { Errorf(<<"it seemed indeed black">>),
      [id |-> "io.EOF", msg |-> <<"EOF">>] }

BadStatuses ==
    { <<404, <<"404", " ", "Not Found">> >>,
      <<600, <<"600", " ", "status code 600">> >> }

Responses ==
    { Response(e, 0, <<>>, <<>>, NoResp.body) : e \in DoErrors }
    \cup { Response(Nil, st[1], st[2], TextHTML, PageFeed) : st \in BadStatuses }
    \cup { Response(Nil, StatusOK, <<"200", " ", "OK">>, ct, b) :
             ct \in ContentTypes, b \in Bodies }

\* -------------------------------------------------------------------- state

VARIABLES
    pc,         \* where the top-level call stands: idle, fetch, dispatch, return, done
    url,        \* the url argument of the processURL call in progress
    redirects,  \* its redirects argument
    hops,       \* one record per processURL call made so far, in call order
    live,       \* how many of those calls hold a response and have not returned
    feed,       \* the feed being returned
    err,        \* the error being returned
    input,      \* the document handed to an extractor run on its own
    output      \* what that extractor returned

vars == <<pc, url, redirects, hops, live, feed, err, input, output>>

Hop(u, sent, resp, closes) ==
    [url |-> u, sent |-> sent, resp |-> resp, ran |-> "none", closes |-> closes]

\* The servers are static during a call: a URL requested again is answered as
\* it was the first time.
Serves(u, r) == \A i \in DOMAIN hops : (hops[i].sent /\ hops[i].url = u) => hops[i].resp = r

\* -------------------------------------------------------------- operations

\* fetch as it would be if the error of Client.Do were wrapped with the
\* request line, as http.Client wraps its own errors.
fetchWrapped(u, r) ==
    IF newRequest(u).err # Nil
    THEN [ok |-> FALSE, sent |-> FALSE, closes |-> 0,
          err |-> Errorf(<<"bad URL: ">> \o newRequest(u).err.msg)]
    ELSE IF r.doErr # Nil
    THEN [ok |-> FALSE, sent |-> TRUE, closes |-> 0,
          err |-> Errorf(<<"Get ">> \o u \o <<": ">> \o r.doErr.msg)]
    ELSE IF r.code # StatusOK
    THEN [ok |-> FALSE, sent |-> TRUE, closes |-> 1,
          err |-> Errorf(<<"HTTP Status ">> \o r.status)]
    ELSE [ok |-> TRUE, sent |-> TRUE, closes |-> 0, err |-> Nil]

\* fetch as it would be if it forgot to close the body of a response it rejects.
fetchLeak(u, r) ==
    IF newRequest(u).err # Nil
    THEN [ok |-> FALSE, sent |-> FALSE, closes |-> 0,
          err |-> Errorf(<<"bad URL: ">> \o newRequest(u).err.msg)]
    ELSE IF r.doErr # Nil
    THEN [ok |-> FALSE, sent |-> TRUE, closes |-> 0, err |-> r.doErr]
    ELSE IF r.code # StatusOK
    THEN [ok |-> FALSE, sent |-> TRUE, closes |-> 0,
          err |-> Errorf(<<"HTTP Status ">> \o r.status)]
    ELSE [ok |-> TRUE, sent |-> TRUE, closes |-> 0, err |-> Nil]

\* fetch (lines 184-202) on target u when Client.Do would answer r: whether
\* the request was sent, how often fetch closed the body, and its result.
fetch(u, r) ==
    IF newRequest(u).err # Nil
    THEN [ok |-> FALSE, sent |-> FALSE, closes |-> 0,
          err |-> Errorf(<<"bad URL: ">> \o newRequest(u).err.msg)]
    ELSE IF r.doErr # Nil
    THEN [ok |-> FALSE, sent |-> TRUE, closes |-> 0, err |-> r.doErr]
    ELSE IF r.code # StatusOK
    THEN [ok |-> FALSE, sent |-> TRUE, closes |-> 1,
          err |-> Errorf(<<"HTTP Status ">> \o r.status)]
    ELSE [ok |-> TRUE, sent |-> TRUE, closes |-> 0, err |-> Nil]

Return(ran, f, e) ==
    [op |-> "return", ran |-> ran, feed |-> f, err |-> e, next |-> <<>>, redirects |-> 0]

Recurse(next, n) ==
    [op |-> "recurse", ran |-> "xml", feed |-> <<>>, err |-> Nil, next |-> next, redirects |-> n]

\* dispatch as it would be with the limit test off by one (>= for >).
dispatchOffByOne(resp, n) ==
    LET ctype == resp.ctype
        parsed == ParseMediaType(ctype)
    IN IF parsed.err # Nil
       THEN Return("none", <<>>,
                   Errorf(<<"bad Content Type ">> \o Quote(ctype) \o <<": ">> \o parsed.err.msg))
       ELSE IF parsed.media = TextHTML
       THEN Return("html", processHTML(resp.body).feed, processHTML(resp.body).err)
       ELSE IF parsed.media \in {TextXML, ApplicationXML}
       THEN IF processXML(resp.body).err # Nil
            THEN Return("xml", <<>>, processXML(resp.body).err)
            ELSE IF n + 1 >= maxRedirects
            THEN Return("xml", <<>>, Errorf(<<"too many redirects">>))
            ELSE Recurse(processXML(resp.body).next, n + 1)
       ELSE Return("none", <<>>, Errorf(<<"unexpected Content Type ">> \o Quote(ctype)))

\* dispatch as it would be if the counter were not passed on to the
\* recursive call (processURL(c, next, 0)).
dispatchCounterLost(resp, n) ==
    LET ctype == resp.ctype
        parsed == ParseMediaType(ctype)
    IN IF parsed.err # Nil
       THEN Return("none", <<>>,
                   Errorf(<<"bad Content Type ">> \o Quote(ctype) \o <<": ">> \o parsed.err.msg))
       ELSE IF parsed.media = TextHTML
       THEN Return("html", processHTML(resp.body).feed, processHTML(resp.body).err)
       ELSE IF parsed.media \in {TextXML, ApplicationXML}
       THEN IF processXML(resp.body).err # Nil
            THEN Return("xml", <<>>, processXML(resp.body).err)
            ELSE IF n + 1 > maxRedirects
            THEN Return("xml", <<>>, Errorf(<<"too many redirects">>))
            ELSE Recurse(processXML(resp.body).next, 0)
       ELSE Return("none", <<>>, Errorf(<<"unexpected Content Type ">> \o Quote(ctype)))

\* dispatch as it would be if it compared the raw header instead of the
\* parsed media type.
dispatchRawHeader(resp, n) ==
    LET ctype == resp.ctype
        parsed == ParseMediaType(ctype)
    IN IF parsed.err # Nil
       THEN Return("none", <<>>,
                   Errorf(<<"bad Content Type ">> \o Quote(ctype) \o <<": ">> \o parsed.err.msg))
       ELSE IF ctype = TextHTML
       THEN Return("html", processHTML(resp.body).feed, processHTML(resp.body).err)
       ELSE IF ctype \in {TextXML, ApplicationXML}
       THEN IF processXML(resp.body).err # Nil
            THEN Return("xml", <<>>, processXML(resp.body).err)
            ELSE IF n + 1 > maxRedirects
            THEN Return("xml", <<>>, Errorf(<<"too many redirects">>))
            ELSE Recurse(processXML(resp.body).next, n + 1)
       ELSE Return("none", <<>>, Errorf(<<"unexpected Content Type ">> \o Quote(ctype)))

\* processURL after a successful fetch (lines 65-89) on response resp with
\* redirects = n: return a result, or call processURL again.
dispatch(resp, n) ==
    LET ctype == resp.ctype
        parsed == ParseMediaType(ctype)
    IN IF parsed.err # Nil
       THEN Return("none", <<>>,
                   Errorf(<<"bad Content Type ">> \o Quote(ctype) \o <<": ">> \o parsed.err.msg))
       ELSE IF parsed.media = TextHTML
       THEN Return("html", processHTML(resp.body).feed, processHTML(resp.body).err)
       ELSE IF parsed.media \in {TextXML, ApplicationXML}
       THEN IF processXML(resp.body).err # Nil
            THEN Return("xml", <<>>, processXML(resp.body).err)
            ELSE IF n + 1 > maxRedirects
            THEN Return("xml", <<>>, Errorf(<<"too many redirects">>))
            ELSE Recurse(processXML(resp.body).next, n + 1)
       ELSE Return("none", <<>>, Errorf(<<"unexpected Content Type ">> \o Quote(ctype)))

\* ------------------------------------------------------------------ actions

Init ==
    /\ pc = "idle"
    /\ url = <<>>
    /\ redirects = 0
    /\ hops = <<>>
    /\ live = 0
    /\ feed = <<>>
    /\ err = Nil
    /\ input = NoResp.body
    /\ output = [val |-> <<>>, err |-> Nil]

\* ToRSSClient is called with url u (lines 43-49): processURL(c, u, 0).
ToRSSClient(u) ==
    /\ pc = "idle"
    /\ pc' = "fetch"
    /\ url' = u
    /\ redirects' = 0
    /\ UNCHANGED <<hops, live, feed, err, input, output>>

\* processURL is entered and fetches its target (lines 57-63).  A failed
\* fetch returns at once; otherwise the close of the body is deferred.
processURL ==
    /\ pc = "fetch"
    /\ Len(hops) < MaxDepth
    /\ \E r \in Responses :
         /\ Serves(url, r)
         /\ LET f == fetch(url, r) IN
            /\ hops' = Append(hops, Hop(url, f.sent, IF f.sent THEN r ELSE NoResp, f.closes))
            /\ IF f.ok
               THEN /\ pc' = "dispatch"
                    /\ live' = live + 1
                    /\ UNCHANGED <<feed, err>>
               ELSE /\ pc' = "return"
                    /\ feed' = <<>>
                    /\ err' = Errorf(<<"fetch error: ">> \o f.err.msg)
                    /\ UNCHANGED live
    /\ UNCHANGED <<url, redirects, input, output>>

\* processURL reads the Content-Type of its response and runs the extractor
\* for it (lines 65-89).
processResponse ==
    /\ pc = "dispatch"
    /\ LET d == dispatch(hops[live].resp, redirects) IN
       /\ hops' = [hops EXCEPT ![live].ran = d.ran]
       /\ IF d.op = "recurse"
          THEN /\ pc' = "fetch"
               /\ url' = d.next
               /\ redirects' = d.redirects
               /\ UNCHANGED <<feed, err>>
          ELSE /\ pc' = "return"
               /\ feed' = d.feed
               /\ err' = d.err
               /\ UNCHANGED <<url, redirects>>
    /\ UNCHANGED <<live, input, output>>

\* deferredClose as it would be without the defer statement: the call
\* returns and leaves its body open.
deferredCloseMissing ==
    /\ pc = "return"
    /\ live > 0
    /\ live' = live - 1
    /\ UNCHANGED <<pc, url, redirects, hops, feed, err, input, output>>

\* The innermost processURL call that holds a response returns: its deferred
\* resp.Body.Close() runs (line 63) and the result passes to its caller.
deferredClose ==
    /\ pc = "return"
    /\ live > 0
    /\ hops' = [hops EXCEPT ![live].closes = @ + 1]
    /\ live' = live - 1
    /\ UNCHANGED <<pc, url, redirects, feed, err, input, output>>

\* ToRSSClientReturn as it would be without the translation of io.EOF.
ToRSSClientReturnRaw ==
    /\ pc = "return"
    /\ live = 0
    /\ pc' = "done"
    /\ UNCHANGED <<url, redirects, hops, live, feed, err, input, output>>

\* The outermost processURL has returned to ToRSSClient, which turns io.EOF
\* into ErrNoFeed and returns (lines 49-54).
ToRSSClientReturn ==
    /\ pc = "return"
    /\ live = 0
    /\ pc' = "done"
    /\ err' = IF err = EOF THEN ErrNoFeed ELSE err
    /\ UNCHANGED <<url, redirects, hops, live, feed, input, output>>

Next ==
    \/ \E u \in URLs : ToRSSClient(u)
    \/ processURL
    \/ processResponse
    \/ deferredClose
    \/ ToRSSClientReturn

Spec == Init /\ [][Next]_vars

\* --------------------------------------------- the line scanner on its own

XmlLines ==
    { prevLine, UrlLine(U1), UrlLine(U3Escaped), <<UrlOpen, UrlClose>>, <<"<dict>">> }

\* All documents of at most MaxLines lines.
XmlDocs == UNION { [1..k -> XmlLines] : k \in 0..MaxLines }

XmlInit ==
    /\ pc = "scan"
    /\ input \in { Body(l, <<>>, Nil) : l \in XmlDocs }
    /\ output = [val |-> <<>>, err |-> Nil]
    /\ url = <<>>
    /\ redirects = 0
    /\ hops = <<>>
    /\ live = 0
    /\ feed = <<>>
    /\ err = Nil

\* processXML is run on the document (lines 131-166).
runProcessXML ==
    /\ pc = "scan"
    /\ pc' = "scanned"
    /\ output' = [val |-> processXML(input).next, err |-> processXML(input).err]
    /\ UNCHANGED <<url, redirects, hops, live, feed, err, input>>

XmlNext == runProcessXML

SpecXML == XmlInit /\ [][XmlNext]_vars

\* ------------------------------------------- the token scanner on its own

\* The attribute lists a tag may carry.
HtmlAttrLists ==
    { <<>>,
      <<Attr("class", Feed2)>>,
      <<Attr("feed-url", <<>>)>>,
      <<Attr("feed-url", Feed1)>>,
      <<Attr("feed-url", <<>>), Attr("feed-url", Feed2)>>,
      <<Attr("class", <<"x">>), Attr("feed-url", Feed1), Attr("feed-url", Feed2)>>,
      <<Attr("feed-url", Feed2), Attr("feed-url", Feed1)>> }

HtmlTokens ==
    { Tok("StartTag", "button", a) : a \in HtmlAttrLists }
    \cup { Tok("StartTag", "a", <<Attr("feed-url", Feed1)>>),
           Tok("StartTag", "buttons", <<Attr("feed-url", Feed1)>>),
           Tok("SelfClosingTag", "button", <<Attr("feed-url", Feed1)>>),
           Tok("EndTag", "button", <<Attr("feed-url", Feed2)>>),
           Tok("Text", "", <<>>) }

\* All token streams of at most MaxTokens tokens.
HtmlDocs == UNION { [1..k -> HtmlTokens] : k \in 0..MaxTokens }

HtmlInit ==
    /\ pc = "tokenize"
    /\ input \in { Body(<<>>, t, e) : t \in HtmlDocs, e \in {Nil, Errorf(<<"unexpected EOF">>)} }
    /\ output = [val |-> <<>>, err |-> Nil]
    /\ url = <<>>
    /\ redirects = 0
    /\ hops = <<>>
    /\ live = 0
    /\ feed = <<>>
    /\ err = Nil

\* processHTML is run on the document (lines 92-126).
runProcessHTML ==
    /\ pc = "tokenize"
    /\ pc' = "tokenized"
    /\ output' = [val |-> processHTML(input).feed, err |-> processHTML(input).err,
                  read |-> processHTML(input).read]
    /\ UNCHANGED <<url, redirects, hops, live, feed, err, input>>

HtmlNext == runProcessHTML

SpecHTML == HtmlInit /\ [][HtmlNext]_vars

\* =================================================================== claims

\* Vocabulary of the claims, stated on the documents themselves.

TooManyRedirects == <<"too many redirects">>

\* Raw headers whose media type is text/html, resp. an XML type.
HTMLHeaders == {TextHTML, <<"Text", "/", "HTML", ";", " ", "charset", "=", "utf-8">>}
XMLHeaders == {TextXML, ApplicationXML}
OtherHeaders ==
    { <<"image", "/", "png">>,
      <<"text", "/", "plain", ";", " ", "charset", "=", "utf-8">> }

\* The parse cause of each header that is no media type.
MalformedCause(ct) ==
    CASE ct = <<>> -> <<"mime: no media type">>
      [] ct = <<"text", "/">> -> <<"mime: expected token after slash">>
      [] ct = <<"text", "/", "xml", ";", " ", "=">> -> <<"mime: invalid media parameter">>
      [] OTHER -> <<>>

Done == pc = "done"

Last == hops[Len(hops)]

\* Hop h got a 200 response from the transport.
Is200(h) == h.sent /\ h.resp.doErr = Nil /\ h.resp.code = StatusOK

\* The transport handed back a response (and so a body) for hop h.
HasBody(h) == h.sent /\ h.resp.doErr = Nil

\* Number of transport executions of the call so far.
DoCount == Cardinality({i \in DOMAIN hops : hops[i].sent})

\* An HTML document holds a feed: a button start tag with a non-empty
\* feed-url attribute.
HoldsFeed(tokens) ==
    \E i \in DOMAIN tokens :
        /\ tokens[i].type = "StartTag"
        /\ tokens[i].tag = "button"
        /\ \E j \in DOMAIN tokens[i].attrs :
              tokens[i].attrs[j].key = "feed-url" /\ tokens[i].attrs[j].val # <<>>

\* A structured document holds a Goto/url pair: a marker line immediately
\* followed by a line of the url pattern.
HoldsPair(lines) ==
    \E i \in 1..(Len(lines) - 1) : lines[i] = prevLine /\ reGoto(lines[i + 1]) # <<>>

\* Hop h is a redirect document: a 200 response of an XML media type from
\* which the structured-redirect extractor returns a target.
RedirectDoc(h) ==
    /\ Is200(h)
    /\ h.resp.ctype \in XMLHeaders
    /\ processXML(h.resp.body).err = Nil

\* Hop h is a page with feed F.
FeedPage(h, F) ==
    /\ Is200(h)
    /\ h.resp.ctype \in HTMLHeaders
    /\ HoldsFeed(h.resp.body.tokens)
    /\ processHTML(h.resp.body).feed = F

Cycle == \E i, j \in DOMAIN hops : i < j /\ hops[i].sent /\ hops[j].sent /\ hops[i].url = hops[j].url

\* How many steps the call can still take, at most.
Rank ==
    CASE pc = "done" -> 0
      [] pc = "return" -> 1 + live
      [] pc = "dispatch" -> 3 + MaxDepth + 2 * (MaxDepth - Len(hops))
      [] pc = "fetch" -> 2 + MaxDepth + 2 * (MaxDepth - Len(hops))
      [] OTHER -> 3 + 3 * MaxDepth

\* Some step of the call is possible (processResponse has no condition but
\* its place in the code).
CanStep ==
    \/ ENABLED (\E u \in URLs : ToRSSClient(u))
    \/ ENABLED processURL
    \/ pc = "dispatch"
    \/ ENABLED (deferredClose \/ ToRSSClientReturn)

EndOfInput(h) ==
    /\ h.resp.body.readErr = Nil
    /\ \/ h.ran = "html" /\ ~HoldsFeed(h.resp.body.tokens)
       \/ h.ran = "xml" /\ ~HoldsPair(h.resp.body.lines)

\* C3: when an extractor reaches the end of the input without a match, at
\* whatever hop, the call returns exactly ErrNoFeed; io.EOF is never returned.
C3_NoFeed ==
    Done =>
      /\ err.id # EOF.id
      /\ (hops # <<>> /\ EndOfInput(Last)) => (err = ErrNoFeed /\ feed = <<>>)

\* No feed in the document reached after three followed redirects.
C3_Witness ==
    /\ Done
    /\ Len(hops) = maxRedirects + 1
    /\ EndOfInput(Last)
    /\ err = ErrNoFeed

\* Hop i has been dispatched on its Content-Type.
Dispatched(i) == Is200(hops[i]) /\ ~(pc = "dispatch" /\ i = Len(hops))

\* C4: every 200 response is dispatched on the media type of its
\* Content-Type, parameters ignored: text/html runs only the HTML extractor,
\* whose outcome is final; text/xml and application/xml run only the
\* structured-redirect extractor; another media type fails with "unexpected
\* Content Type" and the raw header; a header that is no media type fails with
\* "bad Content Type", the raw header and the parse cause; in these two cases
\* no extractor runs and nothing more is fetched.
C4_Dispatch ==
    \A i \in DOMAIN hops : Dispatched(i) =>
      LET h == hops[i]
          ct == h.resp.ctype
      IN /\ ct \in HTMLHeaders =>
              /\ h.ran = "html"
              /\ i = Len(hops)
              /\ feed = (IF HoldsFeed(h.resp.body.tokens) THEN processHTML(h.resp.body).feed ELSE <<>>)
              /\ (err = Nil) = HoldsFeed(h.resp.body.tokens)
         /\ ct \in XMLHeaders =>
              /\ h.ran = "xml"
              /\ (i = Len(hops) /\ pc \in {"return", "done"}) => feed = <<>>
         /\ ct \in OtherHeaders =>
              /\ h.ran = "none"
              /\ i = Len(hops)
              /\ feed = <<>>
              /\ err.msg = <<"unexpected Content Type ">> \o Quote(ct)
         /\ MalformedCause(ct) # <<>> =>
              /\ h.ran = "none"
              /\ i = Len(hops)
              /\ feed = <<>>
              /\ err.msg = <<"bad Content Type ">> \o Quote(ct) \o <<": ">> \o MalformedCause(ct)

\* A page served as Text/HTML with a charset parameter yields its feed.
C4_Witness ==
    /\ Done
    /\ Last.resp.ctype = <<"Text", "/", "HTML", ";", " ", "charset", "=", "utf-8">>
    /\ Last.ran = "html"
    /\ feed = Feed1

\* The innermost cause net/url reports for each malformed URL.
BadCause(u) ==
    CASE u = BadScheme -> <<"missing protocol scheme">>
      [] u = BadEscape -> <<"invalid URL escape ", "\"", "%%2", "\"">>
      [] OTHER -> <<>>

\* C5: a malformed target URL, supplied by the caller or extracted from a
\* redirect document, makes the call fail with "bad request: <cause>", the
\* cause being the innermost parse cause, and not in the "fetch error:" form.
C5_BadRequest ==
    (Done /\ hops # <<>> /\ Last.url \in BadURLs) =>
      /\ err.msg = <<"bad request: ">> \o BadCause(Last.url)
      /\ err.msg[1] # "fetch error: "
      /\ feed = <<>>

\* C6: a response whose status is not 200, at any hop, makes the call fail
\* with "bad HTTP Status: <code> <reason>", not in the "fetch error:" form,
\* and no extractor runs on it.
C6_BadHTTPStatus ==
    (Done /\ hops # <<>> /\ HasBody(Last) /\ Last.resp.code # StatusOK) =>
      /\ err.msg = <<"bad HTTP Status: ">> \o Last.resp.status
      /\ err.msg[1] # "fetch error: "
      /\ Last.ran = "none"
      /\ feed = <<>>

\* The transport failed on hop h.
DoFailed(h) == h.sent /\ h.resp.doErr # Nil

\* C7: when the transport returns an error, at any hop, the call fails with
\* "fetch error: " followed by the transport's message verbatim; and once a
\* call has failed in any way it executes no further request.
C7_FetchError ==
    /\ []((pc \in {"return", "done"} /\ hops # <<>> /\ DoFailed(Last)) =>
            (err.msg = <<"fetch error: ">> \o Last.resp.doErr.msg /\ feed = <<>>))
    /\ [](\A i \in DOMAIN hops : DoFailed(hops[i]) => i = Len(hops))
    /\ [][err # Nil => DoCount' = DoCount]_vars

\* The transport failed on the third hop and the call has returned.
C7_Witness ==
    /\ Done
    /\ Len(hops) = 3
    /\ DoFailed(Last)
    /\ err.msg = <<"fetch error: ", "it seemed indeed black">>

\* The responses whose body is open.
OpenBodies == {i \in DOMAIN hops : HasBody(hops[i]) /\ hops[i].closes = 0}

\* C8 as claimed: the body of a response is closed before the next fetch, so
\* that no body is open at a transport execution and at most one is open at
\* any time.
C8_ClosedBeforeRecursing ==
    /\ Cardinality(OpenBodies) <= 1
    /\ pc = "fetch" => OpenBodies = {}

\* C8 amended: the body of a response is closed when the processURL call that
\* fetched it returns, which is after the recursion into the next fetch has
\* returned: at every transport execution after the first the bodies of all
\* responses fetched earlier in the call are still open, so that up to
\* maxRedirects + 1 bodies are open at once; a call that has returned has
\* closed its body.
C8_ClosedOnReturn ==
    /\ \A i \in DOMAIN hops :
         Is200(hops[i]) => hops[i].closes = (IF i <= live THEN 0 ELSE 1)
    /\ pc = "fetch" => OpenBodies = DOMAIN hops
    /\ Cardinality(OpenBodies) <= maxRedirects + 1

\* The fourth transport execution of a call is due and three bodies are open.
C8_Witness ==
    /\ pc = "fetch"
    /\ Len(hops) = maxRedirects
    /\ OpenBodies = 1..maxRedirects

\* C9: when the top-level call returns, on whatever path, every body the
\* transport handed back during the call has been closed exactly once.
C9_AllClosed ==
    Done => \A i \in DOMAIN hops :
              hops[i].closes = (IF HasBody(hops[i]) THEN 1 ELSE 0)

\* A call that followed three redirects and then met a non-200 status.
C9_Witness ==
    /\ Done
    /\ Len(hops) = maxRedirects + 1
    /\ HasBody(Last)
    /\ Last.resp.code # StatusOK
    /\ \A i \in DOMAIN hops : hops[i].closes = 1

\* The first position of lines at which a marker line is immediately followed
\* by a url line.
FirstPair(lines) ==
    CHOOSE i \in 1..(Len(lines) - 1) :
        /\ lines[i] = prevLine /\ reGoto(lines[i + 1]) # <<>>
        /\ \A j \in 1..(i - 1) : ~(lines[j] = prevLine /\ reGoto(lines[j + 1]) # <<>>)

\* C10: for any sequence of lines the extractor returns the unescaped URL of
\* the first url line that immediately follows a marker line, and signals
\* not-found only if there is no such adjacent pair (so marker, marker, url
\* line yields the URL).
C10_FirstPair ==
    pc = "scanned" =>
      IF HoldsPair(input.lines)
      THEN output = [val |-> UnescapeString(reGoto(input.lines[FirstPair(input.lines) + 1])[2]),
                     err |-> Nil]
      ELSE output = [val |-> <<>>, err |-> EOF]

\* Attribute j of token i qualifies: the token is a button start tag and the
\* attribute is a feed-url with a value.
Qualifies(tokens, i, j) ==
    /\ tokens[i].type = "StartTag"
    /\ tokens[i].tag = "button"
    /\ tokens[i].attrs[j].key = "feed-url"
    /\ tokens[i].attrs[j].val # <<>>

QualifyingAttrs(tokens) ==
    { p \in UNION { {<<i, j>> : j \in DOMAIN tokens[i].attrs} : i \in DOMAIN tokens } :
        Qualifies(tokens, p[1], p[2]) }

\* The first qualifying attribute in document order.
FirstQualifying(tokens) ==
    CHOOSE p \in QualifyingAttrs(tokens) :
        \A q \in QualifyingAttrs(tokens) : p[1] < q[1] \/ (p[1] = q[1] /\ p[2] <= q[2])

\* C11: for any token stream processHTML returns the value of the first
\* feed-url attribute with a non-empty value, in document order, among the
\* button start tags, having read no token after that tag; empty feed-url
\* attributes and those of other tokens are skipped; if none qualifies, every
\* token is read and the result is empty, with the end-of-input signal (the
\* reader's error, when the reader failed).
C11_FirstFeedButton ==
    pc = "tokenized" =>
      LET tokens == input.tokens IN
      IF QualifyingAttrs(tokens) # {}
      THEN LET p == FirstQualifying(tokens) IN
           /\ output.val = tokens[p[1]].attrs[p[2]].val
           /\ output.err = Nil
           /\ output.read = p[1]
      ELSE /\ output.val = <<>>
           /\ output.err = (IF input.readErr = Nil THEN EOF ELSE input.readErr)
           /\ output.read = Len(tokens) + 1

\* The feed is found in the second token, after decoys: a feed-url on a tag
\* that is no button start tag and an empty feed-url; a third token is not read.
C11_Witness ==
    /\ pc = "tokenized"
    /\ Len(input.tokens) = 3
    /\ input.tokens[1] = Tok("EndTag", "button", <<Attr("feed-url", Feed2)>>)
    /\ input.tokens[2].attrs = <<Attr("feed-url", <<>>), Attr("feed-url", Feed2)>>
    /\ output = [val |-> Feed2, err |-> Nil, read |-> 2]

\* C12: every result, as it is passed up from whatever depth and as the
\* top-level call returns it, is either a non-empty feed with a nil error or
\* the empty string with a non-nil error; and a call that has returned has
\* returned one of the two.
C12_FeedOrError ==
    pc \in {"return", "done"} =>
      \/ feed # <<>> /\ err = Nil
      \/ feed = <<>> /\ err # Nil

\* Both outcomes at the deepest level: the feed found after three redirects.
C12_Witness ==
    /\ Done
    /\ Len(hops) = maxRedirects + 1
    /\ feed = Feed1
    /\ err = Nil

====
